---- MODULE Spec2Model ----
(***************************************************************************)
(* Model of ing2qif.py: conversion of ING bank CSV rows into QIF entries.  *)
(*                                                                         *)
(* Text is modelled character by character: a Python str is a sequence of  *)
(* one-character strings, so that startswith, index, slicing, replace and  *)
(* strip are computed as Python computes them.  Python's None is the value *)
(* NoneV, which is different from every text.                              *)
(***************************************************************************)
EXTENDS Integers, Sequences, FiniteSets, TLC

\* ------------------------------------------------------------------ bounds
\* Longest input of main, in rows.
MaxRows == 5
\* Largest --start given to main.
MaxStart == 3
\* Largest --number given to main (0 stands for "not given").
MaxNumber == 2
\* Longest narrative, in fragments of NarrativeFragments.
MaxFrags == 3
\* Longest enumerated raw amount text, in characters.
MaxAmountLen == 4

\* ------------------------------------------------------- program constants
\* len('Naam: '), the offset added to index('Naam: ').
NaamOffset == 6
\* mededelingen[:32] in _memo_geldautomaat.
GeldautomaatCap == 32
\* mededelingen[:64] in _memo_diversen.
DiversenCap == 64

\* ----------------------------------------------------------- Python values
NoneV == <<"None">>
\* str(None), what "%s" and "{}" print for None.
S_None == <<"N","o","n","e">>
Str(v) == IF v = NoneV THEN S_None ELSE v

Min(a, b) == IF a <= b THEN a ELSE b

\* str.startswith
startswith(s, p) ==
    /\ Len(p) <= Len(s)
    /\ SubSeq(s, 1, Len(p)) = p

\* str.find: the lowest 0-based position of sub in s, -1 when there is none.
\* str.index is find that raises ValueError on -1; `sub in s` is find >= 0.
Find(s, sub) ==
    LET hits == {i \in 0..(Len(s) - Len(sub)) : SubSeq(s, i + 1, i + Len(sub)) = sub}
    IN  IF hits = {} THEN -1
        ELSE CHOOSE i \in hits : \A j \in hits : i <= j

Contains(s, sub) == Find(s, sub) >= 0

\* s[a:b] for 0 <= a and 0 <= b.
Slice(s, a, b) ==
    LET e == Min(b, Len(s))
    IN  IF a >= e THEN <<>> ELSE SubSeq(s, a + 1, e)

\* ReplaceComma with a count of 1, str.replace(',', '.', 1): only the first
\* comma is replaced.
ReplaceFirstComma(s) ==
    [i \in 1..Len(s) |->
        IF s[i] = "," /\ (\A j \in 1..(i - 1) : s[j] # ",") THEN "." ELSE s[i]]

\* str.replace(',', '.')
ReplaceComma(s) == [i \in 1..Len(s) |-> IF s[i] = "," THEN "." ELSE s[i]]

Whitespace == {" ", "\t", "\n", "\r"}

\* str.strip()
Strip(s) ==
    LET keep == {i \in 1..Len(s) : s[i] \notin Whitespace}
    IN  IF keep = {} THEN <<>>
        ELSE LET lo == CHOOSE i \in keep : \A j \in keep : i <= j
                 hi == CHOOSE i \in keep : \A j \in keep : j <= i
             IN  SubSeq(s, lo, hi)

\* sep.join(parts)
RECURSIVE Join(_, _)
Join(parts, sep) ==
    IF Len(parts) = 0 THEN <<>>
    ELSE IF Len(parts) = 1 THEN parts[1]
    ELSE parts[1] \o sep \o Join(Tail(parts), sep)

\* The outcome of a call: a value, a None return, or a raised exception.
Ok(v) == [tag |-> "ok", val |-> v, exc |-> ""]
NoResult == [tag |-> "none", val |-> <<>>, exc |-> ""]
Raise(e) == [tag |-> "raise", val |-> <<>>, exc |-> e]

\* ---------------------------------------------------------------- literals
T_Naam == <<"N","a","a","m",":"," ">>
T_Kenmerk == <<"K","e","n","m","e","r","k",":"," ">>
T_OmschrijvingColon == <<"O","m","s","c","h","r","i","j","v","i","n","g",":">>
T_Omschrijving == T_OmschrijvingColon \o <<" ">>
T_IBAN == <<"I","B","A","N",":"," ">>
T_SEPA == <<"S","E","P","A"," ","I","n","c","a","s","s","o">>
T_ING == <<"I","N","G",">">>
T_INGBANK == <<"I","N","G"," ","B","A","N","K",">">>
T_CHIPKNIP == <<"O","P","L","."," ","C","H","I","P","K","N","I","P">>
T_Header == <<"!","T","y","p","e",":","B","a","n","k">>
T_Bij == <<"B","i","j">>
T_Af == <<"A","f">>
T_ATM == <<"A","T","M">>
T_Transfer == <<"T","r","a","n","s","f","e","r">>
T_Deposit == <<"D","e","p","o","s","i","t">>

K_Diversen == <<"D","i","v","e","r","s","e","n">>
K_Betaalautomaat == <<"B","e","t","a","a","l","a","u","t","o","m","a","a","t">>
K_Geldautomaat == <<"G","e","l","d","a","u","t","o","m","a","a","t">>
K_Incasso == <<"I","n","c","a","s","s","o">>
K_Internetbankieren == <<"I","n","t","e","r","n","e","t","b","a","n","k","i","e","r","e","n">>
K_Overschrijving == <<"O","v","e","r","s","c","h","r","i","j","v","i","n","g">>
K_Verzamelbetaling == <<"V","e","r","z","a","m","e","l","b","e","t","a","l","i","n","g">>
K_Storting == <<"S","t","o","r","t","i","n","g">>
\* A kind that is in neither table.
K_Other == <<"R","e","n","t","e">>

Columns == {"Datum", "Bedrag (EUR)", "Af Bij", "MutatieSoort", "Mededelingen",
            "Naam / Omschrijving"}

\* ------------------------------------------------------------------- Entry
\* dict.get(item): Entry.__getitem__ and Entry.__getattr__.
Get(data, item) == IF item \in DOMAIN data THEN data[item] ELSE NoneV

\* Entry._clean_up: data['Bedrag (EUR)'] is a subscript, not a get.
_clean_up(data) ==
    IF "Bedrag (EUR)" \notin DOMAIN data THEN Raise("KeyError")
    ELSE IF data["Bedrag (EUR)"] = NoneV THEN Raise("AttributeError")
    ELSE Ok(("amount" :> ReplaceComma(data["Bedrag (EUR)"])) @@ data)

\* Entry(data)
Entry(data) == _clean_up(data)

\* ---------------------------------------------------------------- QifEntry
DispatchKinds == {K_Diversen, K_Betaalautomaat, K_Geldautomaat, K_Incasso,
                  K_Internetbankieren, K_Overschrijving, K_Verzamelbetaling}

_memo_geldautomaat(mededelingen, omschrijving) ==
    IF omschrijving = NoneV THEN Raise("AttributeError")
    ELSE IF \/ startswith(omschrijving, T_ING)
            \/ startswith(omschrijving, T_INGBANK)
            \/ startswith(omschrijving, T_CHIPKNIP)
         THEN Ok(omschrijving)
    ELSE IF mededelingen = NoneV THEN Raise("TypeError")
    ELSE Ok(Slice(mededelingen, 0, GeldautomaatCap))

\* _memo_incasso that returns None where it should raise for a missing "Naam: ".
_memo_incasso_decline(mededelingen, omschrijving) ==
    IF omschrijving = NoneV THEN Raise("AttributeError")
    ELSE IF ~startswith(omschrijving, T_SEPA) /\ mededelingen = NoneV
         THEN Raise("AttributeError")
    ELSE IF startswith(omschrijving, T_SEPA) \/ startswith(mededelingen, T_SEPA)
         THEN IF mededelingen = NoneV \/ Find(mededelingen, T_Naam) < 0
                 THEN NoResult
              ELSE IF Find(mededelingen, T_Kenmerk) < 0 THEN Raise("ValueError")
              ELSE Ok(Slice(mededelingen, Find(mededelingen, T_Naam) + NaamOffset,
                            Find(mededelingen, T_Kenmerk)))
    ELSE NoResult

_memo_incasso(mededelingen, omschrijving) ==
    IF omschrijving = NoneV THEN Raise("AttributeError")
    ELSE IF ~startswith(omschrijving, T_SEPA) /\ mededelingen = NoneV
         THEN Raise("AttributeError")
    ELSE IF startswith(omschrijving, T_SEPA) \/ startswith(mededelingen, T_SEPA)
         THEN IF mededelingen = NoneV \/ Find(mededelingen, T_Naam) < 0
                 THEN Raise("Exception")
              ELSE IF Find(mededelingen, T_Kenmerk) < 0 THEN Raise("ValueError")
              ELSE Ok(Slice(mededelingen, Find(mededelingen, T_Naam) + NaamOffset,
                            Find(mededelingen, T_Kenmerk)))
    ELSE NoResult

_memo_internetbankieren(mededelingen, omschrijving) ==
    IF mededelingen = NoneV THEN Raise("AttributeError")
    ELSE IF Find(mededelingen, T_Naam) < 0 THEN NoResult
    ELSE IF Contains(mededelingen, T_OmschrijvingColon)
         THEN IF Find(mededelingen, T_Omschrijving) < 0 THEN NoResult
              ELSE Ok(Slice(mededelingen, Find(mededelingen, T_Naam) + NaamOffset,
                            Find(mededelingen, T_Omschrijving)))
    ELSE IF Find(mededelingen, T_IBAN) < 0 THEN NoResult
    ELSE Ok(Slice(mededelingen, Find(mededelingen, T_Naam) + NaamOffset,
                  Find(mededelingen, T_IBAN)))

_memo_diversen(mededelingen, omschrijving) ==
    IF mededelingen = NoneV THEN Raise("TypeError")
    ELSE Ok(Slice(mededelingen, 0, DiversenCap))

_memo_verzamelbetaling(mededelingen, omschrijving) ==
    IF mededelingen = NoneV THEN Raise("TypeError")
    ELSE IF Contains(mededelingen, T_Naam)
         THEN IF Find(mededelingen, T_Kenmerk) < 0 THEN Raise("ValueError")
              ELSE Ok(Slice(mededelingen, Find(mededelingen, T_Naam) + NaamOffset,
                            Find(mededelingen, T_Kenmerk)))
    ELSE NoResult

\* The dispatch table of _memo, applied.
memo_method(mutatie_soort, mededelingen, omschrijving) ==
    IF mutatie_soort = K_Diversen THEN _memo_diversen(mededelingen, omschrijving)
    ELSE IF mutatie_soort \in {K_Betaalautomaat, K_Geldautomaat}
         THEN _memo_geldautomaat(mededelingen, omschrijving)
    ELSE IF mutatie_soort = K_Incasso THEN _memo_incasso(mededelingen, omschrijving)
    ELSE IF mutatie_soort \in {K_Internetbankieren, K_Overschrijving}
         THEN _memo_internetbankieren(mededelingen, omschrijving)
    ELSE IF mutatie_soort = K_Verzamelbetaling
         THEN _memo_verzamelbetaling(mededelingen, omschrijving)
    ELSE Raise("KeyError")

\* The default memo value: "%s %s" % (Mededelingen, Naam / Omschrijving).
DefaultMemo(entry) ==
    Str(Get(entry, "Mededelingen")) \o <<" ">> \o Str(Get(entry, "Naam / Omschrijving"))

\* _memo_body testing `if not memo` for `if memo is None`: an empty result of
\* a strategy is replaced by the default too.
_memo_body_falsy(entry) ==
    LET r == memo_method(Get(entry, "MutatieSoort"), Get(entry, "Mededelingen"),
                         Get(entry, "Naam / Omschrijving"))
    IN  IF r.tag = "raise" /\ r.exc # "KeyError" THEN r
        ELSE IF r.tag = "ok" /\ r.val # <<>> THEN r
        ELSE Ok(DefaultMemo(entry))

\* _memo up to the end of its try statement: the local `memo`, or the
\* exception that leaves the try (KeyError is caught, the others are not).
_memo_body(entry) ==
    LET r == memo_method(Get(entry, "MutatieSoort"), Get(entry, "Mededelingen"),
                         Get(entry, "Naam / Omschrijving"))
    IN  IF r.tag = "raise" /\ r.exc # "KeyError" THEN r
        ELSE IF r.tag = "ok" THEN r
        ELSE Ok(DefaultMemo(entry))

\* _entry_type with an entry 'Overschrijving': 'Transfer' added to its table.
_entry_type_overschrijving(entry) ==
    LET k == Get(entry, "MutatieSoort")
    IN  IF k \in {K_Geldautomaat, K_Betaalautomaat} THEN T_ATM
        ELSE IF k \in {K_Internetbankieren, K_Incasso, K_Verzamelbetaling,
                       K_Overschrijving} THEN T_Transfer
        ELSE IF k = K_Storting THEN T_Deposit
        ELSE NoneV

_entry_type(entry) ==
    LET k == Get(entry, "MutatieSoort")
    IN  IF k \in {K_Geldautomaat, K_Betaalautomaat} THEN T_ATM
        ELSE IF k \in {K_Internetbankieren, K_Incasso, K_Verzamelbetaling} THEN T_Transfer
        ELSE IF k = K_Storting THEN T_Deposit
        ELSE NoneV

\* _memo_post without the strip() of the second return.
_memo_post_nostrip(entry, memo) ==
    IF _entry_type(entry) # NoneV
    THEN _entry_type(entry) \o <<" ">> \o memo
    ELSE memo

\* The two return statements of _memo, given the local `memo`.
_memo_post(entry, memo) ==
    IF _entry_type(entry) # NoneV
    THEN _entry_type(entry) \o <<" ">> \o memo
    ELSE Strip(memo)

_memo(entry) ==
    LET b == _memo_body(entry)
    IN  IF b.tag = "raise" THEN b ELSE Ok(_memo_post(entry, b.val))

_amount_format(entry) ==
    IF Get(entry, "Af Bij") = T_Bij
    THEN <<"+">> \o entry["amount"]
    ELSE <<"-">> \o entry["amount"]

\* QifEntry.__init__ and _processing: the list self._data.
_processing(entry) ==
    LET m == _memo(entry)
        head == << <<"D">> \o Str(Get(entry, "Datum")),
                   <<"T">> \o _amount_format(entry) >>
        cat == IF _entry_type(entry) # NoneV
               THEN << <<"N">> \o _entry_type(entry) >>
               ELSE <<>>
    IN  IF m.tag = "raise" THEN m
        ELSE Ok(head \o cat \o << <<"M">> \o m.val, <<"^">> >>)

\* QifEntry.serialize
QifEntry_serialize(data) == Join(data, <<"\n">>)

\* QifEntries.serialize ending every block, the header included, with a newline.
QifEntries_serialize_trailing(es) ==
    Join(<<T_Header>> \o [i \in 1..Len(es) |-> QifEntry_serialize(es[i])], <<"\n">>)
        \o <<"\n">>

\* QifEntries.serialize
QifEntries_serialize(es) ==
    Join(<<T_Header>> \o [i \in 1..Len(es) |-> QifEntry_serialize(es[i])], <<"\n">>)

\* -------------------------------------------------------------------- state
VARIABLES
    rows,      \* the raw rows CsvEntries yields, in file order
    start,     \* main's start
    number,    \* main's number; 0 stands for None (both are falsy)
    c,         \* rows taken from the iterator so far (enumerate's counter)
    entries,   \* QifEntries._entries: the _data line list of every QifEntry
    bodies,    \* per added entry, the local `memo` of _memo before its return
    pc,        \* "loop", "break", "done" or "raised"
    err,       \* the exception that left main, "" when none
    out        \* what main printed: one text per print call

vars == <<rows, start, number, c, entries, bodies, pc, err, out>>

\* One pass of main's for loop: the iterator builds the Entry of the next row
\* (map(Entry, ...) does so for every row, also those before start), then the
\* body adds it and tests the count.  An exception leaves main.
Iterate ==
    /\ pc = "loop"
    /\ c < Len(rows)
    /\ c' = c + 1
    /\ LET e == Entry(rows[c + 1])
           q == _processing(e.val)
       IN  IF e.tag = "raise"
           THEN /\ pc' = "raised"
                /\ err' = e.exc
                /\ UNCHANGED <<entries, bodies>>
           ELSE IF c + 1 < start
           THEN UNCHANGED <<pc, err, entries, bodies>>
           ELSE IF q.tag = "raise"
           THEN /\ pc' = "raised"
                /\ err' = q.exc
                /\ UNCHANGED <<entries, bodies>>
           ELSE /\ entries' = Append(entries, q.val)
                /\ bodies' = Append(bodies, _memo_body(e.val).val)
                /\ pc' = IF number # 0 /\ c + 1 > start + number - 1
                         THEN "break" ELSE "loop"
                /\ err' = err
    /\ UNCHANGED <<rows, start, number, out>>

\* print(qif.serialize()), reached when the loop ends or breaks.
PrintBatch ==
    /\ \/ pc = "break"
       \/ pc = "loop" /\ c = Len(rows)
    /\ out' = Append(out, QifEntries_serialize(entries))
    /\ pc' = "done"
    /\ UNCHANGED <<rows, start, number, c, entries, bodies, err>>

Next == Iterate \/ PrintBatch

\* What main starts from, whatever its arguments.
InitLocals ==
    /\ c = 0
    /\ entries = <<>>
    /\ bodies = <<>>
    /\ pc = "loop"
    /\ err = ""
    /\ out = <<>>

\* ------------------------------------------------------------------ inputs
Row(datum, bedrag, afbij, soort, mededelingen, omschrijving) ==
    [k \in Columns |->
        CASE k = "Datum" -> datum
          [] k = "Bedrag (EUR)" -> bedrag
          [] k = "Af Bij" -> afbij
          [] k = "MutatieSoort" -> soort
          [] k = "Mededelingen" -> mededelingen
          [] k = "Naam / Omschrijving" -> omschrijving]

Digit == <<"1","2","3","4","5","6","7","8","9">>
T_Amount == <<"1","2",",","5","0">>
FillerLen == 33
Filler == [i \in 1..FillerLen |-> "x"]

\* main: row i carries the date "2014010<i>", so that every row is told apart.
\* A row is a deposit, a row of an unknown kind, or a direct debit whose
\* narrative lacks "Naam: ".
MainRowKinds == {"deposit", "other", "malformed"}

MainRow(i, what) ==
    LET datum == <<"2","0","1","4","0","1","0">> \o <<Digit[i]>>
    IN  CASE what = "deposit" ->
               Row(datum, T_Amount, T_Bij, K_Storting, <<"x">>, <<"y">>)
          [] what = "other" ->
               Row(datum, T_Amount, T_Af, K_Other, <<"x">>, <<"y">>)
          [] what = "malformed" ->
               Row(datum, T_Amount, T_Af, K_Incasso, T_SEPA \o <<" ","x">>, <<"y">>)

InitMain ==
    /\ \E L \in 0..MaxRows : \E w \in [1..L -> MainRowKinds] :
           rows = [i \in 1..L |-> MainRow(i, w[i])]
    /\ start \in 1..MaxStart
    /\ number \in 0..MaxNumber
    /\ InitLocals

\* The memo: one row, every kind, narratives made of the markers the
\* strategies look for.
NarrativeFragments ==
    {T_SEPA, T_Naam, T_Kenmerk, T_OmschrijvingColon, <<" ">>, T_IBAN, Filler}

RECURSIVE Narratives(_)
Narratives(n) ==
    IF n = 0 THEN {<<>>}
    ELSE Narratives(n - 1) \cup
         {s \o f : s \in Narratives(n - 1), f \in NarrativeFragments}

Counterparties == {<<>>, T_SEPA, T_ING \o <<"x">>}

Kinds == DispatchKinds \cup {K_Storting, K_Other}

T_Datum == <<"2","0","1","4","0","1","0","1">>

InitMemo ==
    /\ \E k \in Kinds, m \in Narratives(MaxFrags), o \in Counterparties :
           rows = << Row(T_Datum, T_Amount, T_Af, k, m, o) >>
    /\ start = 1
    /\ number = 0
    /\ InitLocals

\* The amount: one row, every short amount text and the direction values.
AmountChars == {"1", ",", "."}

RECURSIVE Texts(_, _)
Texts(chars, n) ==
    IF n = 0 THEN {<<>>}
    ELSE Texts(chars, n - 1) \cup
         {s \o <<ch>> : s \in Texts(chars, n - 1), ch \in chars}

AmountTexts ==
    Texts(AmountChars, MaxAmountLen) \cup {<<"1",".","2","3","4",",","5","6">>}

Directions == {T_Bij, T_Af, <<"b","i","j">>, <<>>}

InitAmount ==
    /\ \E a \in AmountTexts, d \in Directions :
           rows = << Row(T_Datum, a, d, K_Other, <<"x">>, <<"y">>) >>
    /\ start = 1
    /\ number = 0
    /\ InitLocals

\* Missing fields: one row that has only some of the columns.
RowKinds == {K_Diversen, K_Geldautomaat, K_Incasso, K_Internetbankieren,
             K_Verzamelbetaling, K_Other}

Restrict(f, S) == [k \in S |-> f[k]]

InitRow ==
    /\ \E S \in SUBSET Columns, k \in RowKinds :
           rows = << Restrict(Row(T_Datum, T_Amount, T_Bij, k, <<"x">>, <<"y">>), S) >>
    /\ start = 1
    /\ number = 0
    /\ InitLocals

\* A batch: up to MaxBatch rows of any kind, none of which raises.
MaxBatch == 2

BatchRow(i, k) ==
    Row(<<"2","0","1","4","0","1","0">> \o <<Digit[i]>>, T_Amount, T_Bij, k,
        T_Naam \o <<"x"," ">> \o T_Kenmerk \o T_IBAN, <<"y">>)

InitBatch ==
    /\ \E L \in 0..MaxBatch : \E w \in [1..L -> Kinds] :
           rows = [i \in 1..L |-> BatchRow(i, w[i])]
    /\ start = 1
    /\ number = 0
    /\ InitLocals

Spec == InitMain /\ [][Next]_vars
SpecBatch == InitBatch /\ [][Next]_vars
SpecMemo == InitMemo /\ [][Next]_vars
SpecAmount == InitAmount /\ [][Next]_vars
SpecRow == InitRow /\ [][Next]_vars

\* ================================================================== claims
\* Entry k of the batch was built from row start + k - 1: main adds every row
\* from start on, one per pass.
RowOf(k) == rows[start + k - 1]
KindOf(row) == Get(row, "MutatieSoort")
NarrativeOf(row) == Get(row, "Mededelingen")
CounterpartyOf(row) == Get(row, "Naam / Omschrijving")
\* The text after the tag letter of the M line of entry k.
MemoOf(k) == SubSeq(entries[k][Len(entries[k]) - 1], 2, Len(entries[k][Len(entries[k]) - 1]))
Blank(s) == \A i \in 1..Len(s) : s[i] \in Whitespace
\* The Classifier's table as the specification gives it.
CategoryOf(kind) ==
    CASE kind \in {K_Geldautomaat, K_Betaalautomaat} -> T_ATM
      [] kind \in {K_Internetbankieren, K_Incasso, K_Verzamelbetaling} -> T_Transfer
      [] kind = K_Storting -> T_Deposit
      [] OTHER -> NoneV
\* The malformed record: a direct debit announced as SEPA Incasso, without "Naam: ".
Malformed(row) ==
    /\ KindOf(row) = K_Incasso
    /\ startswith(NarrativeOf(row), T_SEPA) \/ startswith(CounterpartyOf(row), T_SEPA)
    /\ ~Contains(NarrativeOf(row), T_Naam)
\* narrative, one space, counterparty text.
Concatenation(row) == NarrativeOf(row) \o <<" ">> \o CounterpartyOf(row)

\* ---- C1 -----------------------------------------------------------------
\* C1: with a count n >= 1, no more than n rows are ever added, and when main
\* is done the batch holds exactly the rows start .. min(start+n-1, L), in
\* order (each entry's D line carries the date of its row).
C1_RangeSelection ==
    number >= 1 =>
        /\ Len(entries) <= number
        /\ pc = "done" =>
              LET last == Min(start + number - 1, Len(rows))
              IN  /\ Len(entries) = (IF last >= start THEN last - start + 1 ELSE 0)
                  /\ \A k \in 1..Len(entries) :
                        entries[k][1] = <<"D">> \o rows[start + k - 1]["Datum"]

\* ---- C2 -----------------------------------------------------------------
\* The rows the arguments select: start .. start+number-1, or all from start.
SelectedRange ==
    {i \in 1..Len(rows) : i >= start /\ (number = 0 \/ i <= start + number - 1)}

\* C2: when a row of the selected range is malformed, main prints nothing,
\* in no state of the run: neither the header nor any earlier row's block.
C2_NoPartialOutput ==
    (\E i \in SelectedRange : Malformed(rows[i])) => out = <<>>

\* Two rows were converted and added, then a malformed row raised.
C2_Witness ==
    /\ pc = "raised"
    /\ err = "Exception"
    /\ Len(entries) >= 2
    /\ c \in SelectedRange
    /\ Malformed(rows[c])
    /\ out = <<>>

\* ---- C3 -----------------------------------------------------------------
\* C3: building the entry of a row fails if and only if the row is malformed
\* (Incasso, a text starting with "SEPA Incasso", no "Naam: "); every other
\* row gives an entry with a memo line.
C3_OnlyFatalCondition ==
    c = 1 =>
        /\ pc = "raised" <=> Malformed(rows[1])
        /\ pc # "raised" => Len(entries) = 1

\* ---- C4 -----------------------------------------------------------------
\* C4 as claimed: the memo of every entry produced is a non-empty text.
C4_MemoNeverEmpty ==
    \A k \in 1..Len(entries) : Len(MemoOf(k)) > 0

\* C4 as amended: every entry produced has an M line, and its memo is empty
\* exactly when the kind has no category and the memo body (the strategy's
\* result, or the Default concatenation) holds nothing but whitespace.
C4_MemoEmptyOnlyWhenBlank ==
    \A k \in 1..Len(entries) :
        /\ entries[k][Len(entries[k]) - 1][1] = "M"
        /\ MemoOf(k) = <<>> <=>
              (CategoryOf(KindOf(RowOf(k))) = NoneV /\ Blank(bodies[k]))

\* An entry with an empty memo was produced and printed.
C4_Witness ==
    /\ pc = "done"
    /\ Len(entries) = 1
    /\ MemoOf(1) = <<>>
    /\ KindOf(rows[1]) = K_Diversen

\* ---- C5 -----------------------------------------------------------------
\* C5: a row that lacks any of the columns is converted without an error.
C5_MissingFieldsNeverFault ==
    pc # "raised"

\* ---- C6 -----------------------------------------------------------------
\* C6: for the kinds Internetbankieren and Overschrijving and a narrative
\* that holds "Naam: ", nothing fails and the memo body runs from 6
\* characters after "Naam: " up to "Omschrijving: " when that marker occurs,
\* otherwise up to "IBAN: ", and is the Default only when neither occurs.
C6_InternetbankierenBody ==
    LET m == NarrativeOf(rows[1])
        s == Find(m, T_Naam) + 6
    IN  (/\ c = 1
         /\ KindOf(rows[1]) \in {K_Internetbankieren, K_Overschrijving}
         /\ Contains(m, T_Naam))
        => /\ pc # "raised"
           /\ Len(bodies) = 1
           /\ bodies[1] =
                 IF Contains(m, T_Omschrijving) THEN Slice(m, s, Find(m, T_Omschrijving))
                 ELSE IF Contains(m, T_IBAN) THEN Slice(m, s, Find(m, T_IBAN))
                 ELSE Concatenation(rows[1])

\* ---- C7 -----------------------------------------------------------------
\* All lines of all entries, in order.
RECURSIVE AllLines(_)
AllLines(es) == IF es = <<>> THEN <<>> ELSE Head(es) \o AllLines(Tail(es))

\* A header followed by every line, each after a newline.
RECURSIVE TextOf(_, _)
TextOf(first, lines) ==
    IF lines = <<>> THEN first
    ELSE TextOf(first \o <<"\n">> \o Head(lines), Tail(lines))

\* C7: every entry is the lines D, T, N, M, ^ in that order, with the N line
\* (carrying the category) exactly for the six kinds that have one; what is
\* printed is "!Type:Bank" and then every line of every entry in the order
\* added, newline-joined with nothing after the last line.
C7_SerializedLayout ==
    /\ \A k \in 1..Len(entries) :
          LET e == entries[k]
              kind == KindOf(RowOf(k))
              hasN == kind \in {K_Geldautomaat, K_Betaalautomaat, K_Internetbankieren,
                                K_Incasso, K_Verzamelbetaling, K_Storting}
          IN  /\ Len(e) = (IF hasN THEN 5 ELSE 4)
              /\ e[1] = <<"D">> \o RowOf(k)["Datum"]
              /\ e[2][1] = "T"
              /\ hasN => e[3] = <<"N">> \o CategoryOf(kind)
              /\ e[Len(e) - 1][1] = "M"
              /\ e[Len(e)] = <<"^">>
    /\ pc = "done" => out = << TextOf(T_Header, AllLines(entries)) >>

\* A batch of two entries, one with an N line and one without, was printed.
C7_Witness ==
    /\ pc = "done"
    /\ Len(entries) = 2
    /\ Len(entries[1]) = 5
    /\ Len(entries[2]) = 4
    /\ Len(out) = 1

\* ---- C8 -----------------------------------------------------------------
\* m is body without its leading and trailing whitespace.
IsStripped(m, body) ==
    /\ m # <<>> => m[1] \notin Whitespace /\ m[Len(m)] \notin Whitespace
    /\ \E i \in 0..Len(body) :
          /\ i + Len(m) <= Len(body)
          /\ Blank(SubSeq(body, 1, i))
          /\ SubSeq(body, i + 1, i + Len(m)) = m
          /\ Blank(SubSeq(body, i + Len(m) + 1, Len(body)))

\* C8: the memo is "<category> <body>" with the body untouched when the kind
\* has a category, and the body without surrounding whitespace otherwise;
\* Overschrijving is among the kinds without a category.
C8_MemoPostProcessing ==
    \A k \in 1..Len(entries) :
        LET kind == KindOf(RowOf(k))
        IN  /\ kind \in {K_Geldautomaat, K_Betaalautomaat} =>
                  MemoOf(k) = T_ATM \o <<" ">> \o bodies[k]
            /\ kind \in {K_Internetbankieren, K_Incasso, K_Verzamelbetaling} =>
                  MemoOf(k) = T_Transfer \o <<" ">> \o bodies[k]
            /\ kind = K_Storting => MemoOf(k) = T_Deposit \o <<" ">> \o bodies[k]
            /\ kind \in {K_Overschrijving, K_Diversen, K_Other} =>
                  IsStripped(MemoOf(k), bodies[k])

\* An Overschrijving whose body lost surrounding whitespace and got no prefix.
C8_Witness ==
    /\ pc = "done"
    /\ Len(entries) = 1
    /\ KindOf(rows[1]) = K_Overschrijving
    /\ bodies[1] # <<>>
    /\ bodies[1][1] = " "
    /\ MemoOf(1) # <<>>
    /\ MemoOf(1) # bodies[1]

\* ---- C9 -----------------------------------------------------------------
\* C9: no amount text and no direction raises; the T line is the sign, "+"
\* exactly for direction "Bij" and "-" otherwise, followed by the raw amount
\* with each comma turned into a period and every other character kept;
\* replacing twice gives what replacing once gives.
C9_SignedAmount ==
    /\ pc # "raised"
    /\ \A k \in 1..Len(entries) :
          LET raw == RowOf(k)["Bedrag (EUR)"]
              t == entries[k][2]
          IN  /\ Len(t) = Len(raw) + 2
              /\ t[1] = "T"
              /\ t[2] = (IF RowOf(k)["Af Bij"] = T_Bij THEN "+" ELSE "-")
              /\ \A i \in 1..Len(raw) :
                    t[i + 2] = (IF raw[i] = "," THEN "." ELSE raw[i])
              /\ ReplaceComma(ReplaceComma(raw)) = ReplaceComma(raw)

\* "1.234,56" with "Bij" gave "+1.234.56".
C9_Witness ==
    /\ pc = "done"
    /\ Len(entries) = 1
    /\ rows[1]["Bedrag (EUR)"] = <<"1",".","2","3","4",",","5","6">>
    /\ rows[1]["Af Bij"] = T_Bij
    /\ entries[1][2] = <<"T","+","1",".","2","3","4",".","5","6">>

\* ---- C10 ----------------------------------------------------------------
\* C10: when the strategy of the kind gives no result (no strategy for the
\* kind; Incasso without "SEPA Incasso"; Verzamelbetaling without "Naam: ";
\* Internetbankieren or Overschrijving declining) nothing is raised and the
\* memo body is the narrative, a space and the counterparty text; when the
\* strategy gives a text, even an empty one, the body is that text.
C10_DeclineFallsBackToDefault ==
    LET row == rows[1]
        kind == KindOf(row)
        m == NarrativeOf(row)
        o == CounterpartyOf(row)
        r == memo_method(kind, m, o)
        declines ==
            \/ kind \notin DispatchKinds
            \/ kind = K_Incasso /\ ~startswith(m, T_SEPA) /\ ~startswith(o, T_SEPA)
            \/ kind = K_Verzamelbetaling /\ ~Contains(m, T_Naam)
            \/ kind \in {K_Internetbankieren, K_Overschrijving} /\ r.tag = "none"
    IN  c = 1 =>
           /\ declines => /\ pc # "raised"
                          /\ Len(bodies) = 1
                          /\ bodies[1] = m \o <<" ">> \o o
           /\ r.tag = "none" => declines
           /\ r.tag = "ok" => /\ pc # "raised"
                              /\ Len(bodies) = 1
                              /\ bodies[1] = r.val

\* A Verzamelbetaling without "Naam: " got the Default body.
C10_Witness ==
    /\ pc = "done"
    /\ KindOf(rows[1]) = K_Verzamelbetaling
    /\ ~Contains(NarrativeOf(rows[1]), T_Naam)
    /\ NarrativeOf(rows[1]) # <<>>
    /\ Len(bodies) = 1
    /\ bodies[1] = Concatenation(rows[1])

====
